---- MODULE Spec2Model ----
(***************************************************************************)
(* Model of the search pipeline of the reader gateway:                     *)
(*   CrawlerHost.scrapMany            (crawler.ts)  - scrape aggregator    *)
(*   SearXNGSearchHost.fetchSearchResults / reOrganizeSearchResults        *)
(*   SearXNGSearchHost.search         (searxng-searcher.ts)                *)
(*   SearXNGSearchHost.cachedWebSearch (searxng-searcher.ts)               *)
(*   SearXNGSearchService.search      (part_000)    - search client        *)
(* CacheSpec follows a request from its arrival to the call of             *)
(* fetchSearchResults; Spec follows it from there to the response.         *)
(* One request is modelled.  JavaScript runs one job at a time, so every   *)
(* action below is a maximal run of synchronous code together with the     *)
(* microtask hops that nothing else can observe.                           *)
(***************************************************************************)
EXTENDS Integers, Sequences, FiniteSets, TLC

\* ---------------------------------------------------------------- bounds
MaxCount  == 2      \* largest value of the count query parameter explored
MaxUp     == 2      \* largest number of results the upstream pages return
MaxYields == 2      \* largest number of values the scrape streams yield in total
MaxEntries == 2     \* largest number of entries the cache collection starts with
MaxHost == 4        \* longest hostname of a crawl target, in characters
MaxSeen == 2         \* largest number of values a crawl takes from its scrape stream
MaxPages == 3       \* longest page list given to reOrganizeSearchResults on its own

\* ------------------------------------------------------------- constants
targetResultCount == 5
defaultCount == 5
countCeiling == 20
cacheRetentionMs == 604800000     \* 1000 * 3600 * 24 * 7
cacheValidMs == 3600000           \* 1000 * 3600
MaxTries == 5

\* ----------------------------------------------------- JavaScript values
Undefined == "undefined"
Empty     == ""
Text      == "text"

Truthy(v) == v \notin {Undefined, Empty}

Str(b) == IF b THEN Text ELSE Empty

Min(a, b) == IF a < b THEN a ELSE b

\* An optional value: None for undefined, Some(x) for the value x.
None == << >>

Some(x) == <<x>>

Get(o) == o[1]

Range(s) == {s[i] : i \in DOMAIN s}

\* Array.prototype.slice(0, n)
Slice_offByOne(s, n) == SubSeq(s, 1, Min(Len(s), IF n + 1 > 0 THEN n + 1 ELSE 0))

Slice(s, n) == SubSeq(s, 1, Min(Len(s), IF n > 0 THEN n ELSE 0))

Modes == {"markdown", "html", "text", "screenshot", "pageshot"}

\* ------------------------------------------------------------- snapshots
\* What the formatter reads of a PageSnapshot, as "is this field non-empty".
Blank == [title |-> FALSE, md |-> FALSE, html |-> FALSE, text |-> FALSE,
          screenshot |-> FALSE, pageshot |-> FALSE]

Full == [title |-> TRUE, md |-> TRUE, html |-> TRUE, text |-> TRUE,
         screenshot |-> TRUE, pageshot |-> TRUE]

SnapKinds == {Blank, Full}

\* A snapshot object; (slot, seq) is its identity.
Snapshot(i, k, kind) == [slot |-> i, seq |-> k, kind |-> kind]

\* ------------------------------------------------------ upstream results
\* The url string of an upstream result: id names the address, norm says
\* whether the string is already in the form URL.toString() produces.
UpstreamUrl(i, n) == [id |-> i, norm |-> n]

\* new URL(x.url).toString()
NewURL(u) == [u EXCEPT !.norm = TRUE]

UpstreamResult(i, n, t) == [url |-> UpstreamUrl(i, n), title |-> t, content |-> Text]

\* The result lists the upstream pages deliver, up to MaxUp entries: entries
\* alternate between a titled result whose url string is not normalised and
\* an untitled one whose url string is.
UpstreamLists ==
    {[i \in 1..n |-> UpstreamResult(i, (i % 2) = 0, IF (i % 2) = 1 THEN Text ELSE Empty)] :
        n \in 0..MaxUp}

VARIABLES
    allResults,         \* cachedWebSearch: the merged upstream pages
    count,              \* search: const count
    mode,               \* crawlerOptions.respondWith
    searchResults,      \* r.results.slice(0, count), given to fetchSearchResults
    results,            \* scrapMany: the shared slot array
    nextDeferred,       \* scrapMany: state of the current Defer()
    concluded,          \* scrapMany: let concluded
    agPc,               \* scrapMany: where the generator is
    itState,            \* scrapMany: the scrape stream of each slot
    yields,             \* number of values each scrape stream has yielded
    fsPc,               \* fetchSearchResults: where the generator is
    mapped,             \* fetchSearchResults: the slots as scrapped.map last read them
    snapshotMap,        \* fetchSearchResults: the WeakMap of formatted pages
    lastScrapped,       \* search: let lastScrapped
    earlyReturnTimer,   \* search: let earlyReturnTimer
    srPc,               \* search: where the handler is
    response,           \* res: headersSent, status code and body given to res.send
    sentBy,             \* which call of sendResponse produced the response
    armCount,           \* number of setTimeout calls
    seenQualified,      \* search has observed a batch with a qualified slot
    formatFailed,       \* the slots whose formatSnapshot call rejected in the last batch
    finalEmitted,       \* an emission happened after all streams terminated
    noCache,            \* crawlerOptions.noCache
    store,              \* the SearchResult collection
    cache,              \* cachedWebSearch: let cache
    cwPc,               \* cachedWebSearch: where the function is
    maxTries,           \* SearXNGSearchService.search: let maxTries
    http,               \* the HTTP requests issued so far: page number and outcome
    firstResponse,      \* cachedWebSearch: const firstResponse
    secondResponse,     \* cachedWebSearch: const secondResponse
    returned,           \* the value cachedWebSearch returned
    saved,              \* the records handed to SearchResult.save
    reqCount,           \* ctx.req.query['count'] of the search request
    crawlPc,            \* crawl: where the handler is
    reqUrl,             \* crawl: the url the request names
    crawlOpts,          \* crawl: crawlerOptions.waitForSelector and .timeout
    circuitBreakerHosts,\* puppeteerControl.circuitBreakerHosts
    scrapStarted,       \* crawl: this.scrap(...) has been called
    seen,               \* crawl: the values taken from the scrape stream, and
                        \* whether the loop skipped each
    roInput,            \* the pages a call of reOrganizeSearchResults is given
    roOutput            \* what that call returns

vars == <<allResults, count, mode, searchResults, results, nextDeferred, concluded, agPc,
          itState, yields, fsPc, mapped, snapshotMap, lastScrapped,
          earlyReturnTimer, srPc, response, sentBy, armCount, seenQualified, formatFailed,
          finalEmitted, noCache, store, cache, cwPc, maxTries, http, firstResponse,
          secondResponse, returned, saved, reqCount, crawlPc, reqUrl, crawlOpts,
          circuitBreakerHosts, scrapStarted, seen, roInput, roOutput>>

\* What the pipeline and crawl leave alone: the search request's count, the
\* state of cachedWebSearch and of the search client, and a call of
\* reOrganizeSearchResults on its own.
cvars == <<noCache, store, cache, cwPc, maxTries, http, firstResponse, secondResponse,
           returned, saved, reqCount, roInput, roOutput>>

\* The state of the crawl handler.
kvars == <<crawlPc, reqUrl, crawlOpts, circuitBreakerHosts, scrapStarted, seen>>

Slots == 1..Len(searchResults)

\* ----------------------------------------------------------------- pages
NoUrl == [id |-> 0, norm |-> FALSE]

\* A FormattedPage.  slot stands for the identity of the object (pages are
\* compared by reference in reOrganizeSearchResults).
Page(i, url, title, content, html, text, screenshotUrl, pageshotUrl, textRepresentation) ==
    [slot |-> i, url |-> url, title |-> title, description |-> Undefined,
     content |-> content, html |-> html, text |-> text,
     screenshotUrl |-> screenshotUrl, pageshotUrl |-> pageshotUrl,
     textRepresentation |-> textRepresentation]

\* CrawlerHost.formatSnapshot: the page built for each mode.
formatSnapshot(m, x, nominalUrl) ==
    LET k == x.kind IN
    CASE m = "screenshot" ->
           Page(x.slot, NoUrl, Undefined, Undefined, Undefined, Undefined,
                IF k.screenshot THEN Text ELSE Undefined, Undefined, Text)
      [] m = "pageshot" ->
           Page(x.slot, NoUrl, Undefined, Undefined, Str(k.html), Undefined,
                Undefined, IF k.pageshot THEN Text ELSE Undefined, Text)
      [] m = "html" ->
           Page(x.slot, NoUrl, Undefined, Undefined, Str(k.html), Undefined,
                Undefined, Undefined, Str(k.html))
      [] m = "text" ->
           Page(x.slot, NoUrl, Undefined, Undefined, Undefined, Str(k.text),
                Undefined, Undefined, Str(k.text))
      [] OTHER ->
           Page(x.slot, nominalUrl, Str(k.title), Str(k.md \/ k.text), Undefined,
                Undefined, Undefined, Undefined, Str(k.md \/ k.text))

StubContent_text(m) == Text

\* fetchSearchResults: the stub of a slot whose snapshot is undefined.
StubContent(m) == IF m \in {"html", "text", "screenshot"} THEN Undefined ELSE Empty

StubPage(m, i, up) ==
    [Page(i, up.url, up.title, StubContent(m), Undefined, Undefined, Undefined,
          Undefined, Undefined) EXCEPT !.description = up.content]

\* fetchSearchResults: the .then() after formatSnapshot.
FormattedSlot(m, x, up) ==
    LET r == formatSnapshot(m, x, NewURL(up.url)) IN
    [r EXCEPT !.title = IF r.title = Undefined THEN up.title ELSE r.title,
              !.description = up.content]

FailedSlot_empty(m, x, up) ==
    [Page(x.slot, up.url, up.title, StubContent(m), Undefined, Undefined,
          Undefined, Undefined, Undefined) EXCEPT !.description = up.content]

\* fetchSearchResults: the .catch() after formatSnapshot.
FailedSlot(m, x, up) ==
    [Page(x.slot, up.url, up.title, Str(x.kind.text), Undefined, Undefined,
          Undefined, Undefined, Undefined) EXCEPT !.description = up.content]

pageQualified(p) ==
    (Truthy(p.title) /\ Truthy(p.content)) \/ Truthy(p.screenshotUrl)
        \/ Truthy(p.pageshotUrl) \/ Truthy(p.text) \/ Truthy(p.html)

\* _.some(scrapped, (x) => this.pageQualified(x))
SomeQualified_always(b) == TRUE

SomeQualified(b) == \E i \in DOMAIN b : pageQualified(b[i])

searchResultsQualified_some(b, target) ==
    (\E i \in DOMAIN b : pageQualified(b[i])) /\ Len(b) >= target

searchResultsQualified_noLength(b, target) ==
    \A i \in DOMAIN b : pageQualified(b[i])

searchResultsQualified(b, target) ==
    (\A i \in DOMAIN b : pageQualified(b[i])) /\ Len(b) >= target

reOrganizeSearchResults_sorted(pages, cnt) ==
    LET target    == IF cnt # 0 THEN cnt ELSE targetResultCount
        qualified == SelectSeq(pages, LAMBDA x : pageQualified(x))
        unqual    == SelectSeq(pages, LAMBDA x : ~pageQualified(x))
    IN  Slice(qualified \o unqual, target)

reOrganizeSearchResults(pages, cnt) ==
    LET target    == IF cnt # 0 THEN cnt ELSE targetResultCount
        qualified == SelectSeq(pages, LAMBDA x : pageQualified(x))
        unqual    == SelectSeq(pages, LAMBDA x : ~pageQualified(x))
        n         == target - Len(qualified)
        acceptSet == Range(qualified) \cup Range(Slice(unqual, IF n >= 0 THEN n ELSE 0))
    IN  Slice(SelectSeq(pages, LAMBDA x : x \in acceptSet), target)

\* ----------------------------------------------------------------- timer
\* earlyReturnTimer: "unset" (undefined), "armed", "fired", "cleared".
setEarlyReturnTimer_never(t) == [timer |-> t, setTimeouts |-> 0]

\* setEarlyReturnTimer: the new value of earlyReturnTimer and the number of
\* setTimeout calls made.
setEarlyReturnTimer(t) ==
    IF t # "unset" THEN [timer |-> t, setTimeouts |-> 0]
    ELSE [timer |-> "armed", setTimeouts |-> 1]

clearTimeout_noop(t) == t

clearTimeout(t) == IF t = "armed" THEN "cleared" ELSE t

\* -------------------------------------------------------------- response
NoResponse == [headersSent |-> FALSE, code |-> 0, body |-> << >>]

sendResponse_last(res, data, code) ==
    [headersSent |-> TRUE, code |-> code,
     body |-> IF res.headersSent THEN res.body \o data ELSE data]

sendResponse_unguarded(res, data, code) ==
    [headersSent |-> TRUE, code |-> code, body |-> data]

sendResponse(res, data, code) ==
    IF res.headersSent THEN res
    ELSE [headersSent |-> TRUE, code |-> code, body |-> data]

\* search, after the loop: NoContent is thrown inside the try block and the
\* catch clause answers 500.
AfterLoop_inverted(res, last) ==
    IF last # None THEN sendResponse(res, << >>, 500)
    ELSE sendResponse(res, << >>, 200)

AfterLoop(res, last) ==
    IF last = None THEN sendResponse(res, << >>, 500)
    ELSE sendResponse(res, Get(last), 200)

\* ------------------------------------------------------------------ Init
\* reOrganizeSearchResults is not being called on its own.
NoCall == roInput = << >> /\ roOutput = None

\* No crawl request is being served.
NoCrawl ==
    /\ crawlPc = "idle"
    /\ reqUrl = [given |-> FALSE, wellFormed |-> FALSE, protocol |-> "",
                 hostname |-> << >>]
    /\ crawlOpts = [waitForSelector |-> FALSE, timeout |-> FALSE]
    /\ circuitBreakerHosts = {}
    /\ scrapStarted = FALSE
    /\ seen = << >>

\* Spec takes the request up where cachedWebSearch has returned (line 93):
\* its locals are no longer live.
CacheDone ==
    /\ reqCount = Some(count)
    /\ noCache = FALSE
    /\ store = {}
    /\ cache = None
    /\ cwPc = "returned"
    /\ maxTries = 0
    /\ http = << >>
    /\ firstResponse = None
    /\ secondResponse = None
    /\ returned = None
    /\ saved = << >>

\* cachedWebSearch trims the merged pages to query.count (line 360) and
\* search trims r.results again (line 94).
Init ==
    /\ count \in 1..MaxCount
    /\ CacheDone
    /\ NoCrawl
    /\ mode \in Modes
    /\ allResults \in UpstreamLists
    /\ searchResults = Slice(Slice(allResults, count), count)
    /\ results = [i \in 1..Len(searchResults) |-> None]
    /\ nextDeferred = "pending"
    /\ concluded = FALSE
    /\ agPc = "init"
    /\ itState = [i \in 1..Len(searchResults) |-> "idle"]
    /\ yields = [i \in 1..Len(searchResults) |-> 0]
    /\ fsPc = "init"
    /\ mapped = None
    /\ snapshotMap = {}
    /\ lastScrapped = None
    /\ earlyReturnTimer = "unset"
    /\ srPc = "start"
    /\ response = NoResponse
    /\ sentBy = "none"
    /\ armCount = 0
    /\ seenQualified = FALSE
    /\ finalEmitted = FALSE
    /\ formatFailed = {}
    /\ NoCall

RECURSIVE Sum(_, _)
Sum(f, n) == IF n = 0 THEN 0 ELSE f[n] + Sum(f, n - 1)

\* A Promise.all that settled on the first rejection, as it would if handler
\* did not catch the error of its stream.
AllStreamsOver_firstFailure ==
    \/ \E i \in Slots : itState[i] = "failed"
    \/ \A i \in Slots : itState[i] = "done"

\* Every handler has returned, so Promise.all settles (crawler.ts 858).
AllStreamsOver == \A i \in Slots : itState[i] = "done"

Resolve_unheard(pc) == pc

\* nextDeferred.resolve(): wakes scrapMany if it awaits this deferred.
Resolve(pc) == IF pc = "awaiting" THEN "woken" ELSE pc

\* A WeakMap holds an entry only while its key is referenced: by the slot
\* array res, or by the formatter callbacks of the emission in flight.
Reachable(map, res, inFlight) ==
    {e \in map : res[e.snap.slot] = Some(e.snap) \/ inFlight[e.snap.slot] = Some(e.snap)}

\* --------------------------------------------------------------- actions
\* search enters its for-await loop: fetchSearchResults, past its two early
\* exits (searxng-searcher.ts 151-173), starts scrapMany, which starts one
\* handler per iterator and yields results for the first time (crawler.ts
\* 835-865).
Start ==
    /\ srPc = "start"
    /\ count # 0
    /\ srPc' = "looping"
    /\ agPc' = "first"
    /\ fsPc' = "got"
    /\ itState' = [i \in Slots |-> "running"]
    /\ finalEmitted' = (Slots = {})
    /\ UNCHANGED cvars
    /\ UNCHANGED kvars
    /\ UNCHANGED <<allResults, count, mode, searchResults, results, nextDeferred, concluded,
                   yields, mapped, snapshotMap, lastScrapped, earlyReturnTimer,
                   response, sentBy, armCount, seenQualified, formatFailed>>

\* handler, one turn of its for-await loop (crawler.ts 844-851): the stream
\* of slot i yields v, an undefined value or a new snapshot.  A stream on
\* which return() was called delivers at most the value already in flight.
StreamYield(i, v) ==
    /\ itState[i] \in {"running", "returning"}
    /\ Sum(yields, Len(yields)) < MaxYields
    /\ results' = [results EXCEPT ![i] = v]
    /\ yields' = [yields EXCEPT ![i] = @ + 1]
    /\ IF v # None
       THEN /\ agPc' = Resolve(agPc)
            /\ nextDeferred' = "pending"
       ELSE UNCHANGED <<agPc, nextDeferred>>
    /\ itState' = [itState EXCEPT ![i] = IF @ = "returning" THEN "done" ELSE @]
    /\ snapshotMap' = Reachable(snapshotMap, results',
                                 IF fsPc = "formatting" THEN Get(mapped) ELSE results')
    /\ UNCHANGED cvars
    /\ UNCHANGED kvars
    /\ UNCHANGED <<allResults, count, mode, searchResults, concluded, fsPc, mapped,
                   lastScrapped, earlyReturnTimer, srPc, response,
                   sentBy, armCount, seenQualified, formatFailed, finalEmitted>>

\* handler: the stream of slot i completes (crawler.ts 844, 852).
StreamEnd(i) ==
    /\ itState[i] \in {"running", "returning"}
    /\ itState' = [itState EXCEPT ![i] = "done"]
    /\ UNCHANGED cvars
    /\ UNCHANGED kvars
    /\ UNCHANGED <<allResults, count, mode, searchResults, results, nextDeferred, concluded,
                   agPc, yields, fsPc, mapped, snapshotMap, lastScrapped,
                   earlyReturnTimer, srPc, response, sentBy, armCount,
                   seenQualified, formatFailed, finalEmitted>>

\* The stream of slot i throws: the promise that handler awaits is rejected
\* (crawler.ts 844).
StreamThrow(i) ==
    /\ itState[i] = "running"
    /\ itState' = [itState EXCEPT ![i] = "failed"]
    /\ UNCHANGED cvars
    /\ UNCHANGED kvars
    /\ UNCHANGED <<allResults, count, mode, searchResults, results, nextDeferred, concluded,
                   agPc, yields, fsPc, mapped, snapshotMap, lastScrapped,
                   earlyReturnTimer, srPc, response, sentBy, armCount,
                   seenQualified, formatFailed, finalEmitted>>

\* handler: the catch clause logs the error and handler returns (853-855).
HandlerCatch(i) ==
    /\ itState[i] = "failed"
    /\ itState' = [itState EXCEPT ![i] = "done"]
    /\ UNCHANGED cvars
    /\ UNCHANGED kvars
    /\ UNCHANGED <<allResults, count, mode, searchResults, results, nextDeferred, concluded,
                   agPc, yields, fsPc, mapped, snapshotMap, lastScrapped,
                   earlyReturnTimer, srPc, response, sentBy, armCount,
                   seenQualified, formatFailed, finalEmitted>>

\* Promise.all(...).finally (crawler.ts 858-863).
Conclude ==
    /\ agPc # "init"
    /\ ~concluded
    /\ AllStreamsOver
    /\ concluded' = TRUE
    /\ nextDeferred' = "resolved"
    /\ agPc' = Resolve(agPc)
    /\ UNCHANGED cvars
    /\ UNCHANGED kvars
    /\ UNCHANGED <<allResults, count, mode, searchResults, results, itState, yields, fsPc,
                   mapped, snapshotMap, lastScrapped, earlyReturnTimer, srPc,
                   response, sentBy, armCount, seenQualified, formatFailed, finalEmitted>>

\* scrapMany: the awaited deferred is resolved, yield results (869-871).
AgEmit ==
    /\ agPc = "woken"
    /\ agPc' = "yielded"
    /\ fsPc' = "got"
    /\ finalEmitted' = (finalEmitted \/ AllStreamsOver)
    /\ UNCHANGED cvars
    /\ UNCHANGED kvars
    /\ UNCHANGED <<allResults, count, mode, searchResults, results, nextDeferred, concluded,
                   itState, yields, mapped, snapshotMap, lastScrapped,
                   earlyReturnTimer, srPc, response, sentBy, armCount,
                   seenQualified, formatFailed>>

\* fetchSearchResults: scrapped.map reads the slots (searxng-searcher.ts
\* 176-206) and starts the formatters.
FsMap ==
    /\ fsPc = "got"
    /\ fsPc' = "formatting"
    /\ mapped' = Some(results)
    /\ UNCHANGED cvars
    /\ UNCHANGED kvars
    /\ UNCHANGED <<allResults, count, mode, searchResults, results, nextDeferred, concluded,
                   agPc, itState, yields, snapshotMap, lastScrapped,
                   earlyReturnTimer, srPc, response, sentBy, armCount,
                   seenQualified, formatFailed, finalEmitted>>

Cached_never(x) == FALSE

\* snapshotMap.has(x)
Cached(x) == \E e \in snapshotMap : e.snap = x

CachedPage(x) == (CHOOSE e \in snapshotMap : e.snap = x).page

\* The slots of the emission being processed that formatSnapshot is called for.
ToFormat == {i \in DOMAIN Get(mapped) : Get(mapped)[i] # None /\ ~Cached(Get(Get(mapped)[i]))}

\* fetchSearchResults: the page of slot i, F being the slots whose
\* formatSnapshot call rejects (177-206).
MapSlot(i, F) ==
    LET x == Get(mapped)[i] IN
    IF x = None THEN StubPage(mode, i, searchResults[i])
    ELSE IF Cached(Get(x)) THEN CachedPage(Get(x))
    ELSE IF i \in F THEN FailedSlot(mode, Get(x), searchResults[i])
    ELSE FormattedSlot(mode, Get(x), searchResults[i])

\* fetchSearchResults: await Promise.all(mapped), reorganize, yield (208-210).
Batch(F) ==
    reOrganizeSearchResults([i \in DOMAIN Get(mapped) |-> MapSlot(i, F)], count)

\* scrapMany's finally block: return() on every iterator (873-877).
ReturnAll(st) == [i \in DOMAIN st |-> IF st[i] = "running" THEN "returning" ELSE st[i]]

\* The consumer stops iterating: return() reaches scrapMany where it is
\* suspended.  The first yield (865) stands before the try statement, so
\* the finally block only runs when scrapMany is suspended at line 871.
CloseAggregator(pc, st) == IF pc = "first" THEN st ELSE ReturnAll(st)

\* Promise.all of the formatters settles; fetchSearchResults yields the
\* batch and search runs its loop body (111-127).  On `continue` the
\* generators are resumed synchronously up to scrapMany's loop test
\* (crawler.ts 868-869); when scrapMany is over, search runs lines 129-136.
FsFormatDone(F) ==
    /\ fsPc = "formatting"
    /\ F \subseteq ToFormat
    /\ LET batch  == Batch(F)
           armed  == SomeQualified(batch)
           set    == IF armed THEN setEarlyReturnTimer(earlyReturnTimer)
                     ELSE [timer |-> earlyReturnTimer, setTimeouts |-> 0]
           timer1 == set.timer
       IN
       /\ snapshotMap' = Reachable(snapshotMap \cup
              {[snap |-> Get(Get(mapped)[i]), page |-> MapSlot(i, F)] : i \in ToFormat \ F},
              results, results)
       /\ lastScrapped' = Some(batch)
       /\ formatFailed' = F
       /\ seenQualified' = (seenQualified \/ \E i \in DOMAIN batch : pageQualified(batch[i]))
       /\ armCount' = armCount + set.setTimeouts
       /\ IF searchResultsQualified(batch, count)
          THEN \* lines 122-126
               /\ earlyReturnTimer' = clearTimeout(timer1)
               /\ response' = sendResponse(response, batch, 200)
               /\ sentBy' = IF response.headersSent THEN sentBy ELSE "gate"
               /\ srPc' = "returned"
               /\ fsPc' = "closed"
               /\ agPc' = "ended"
               /\ itState' = CloseAggregator(agPc, itState)
               /\ UNCHANGED nextDeferred
          ELSE IF concluded
          THEN \* crawler.ts 868, 873-877; searxng-searcher.ts 129-136
               /\ earlyReturnTimer' = clearTimeout(timer1)
               /\ response' = AfterLoop(response, Some(batch))
               /\ sentBy' = IF response.headersSent THEN sentBy ELSE "end"
               /\ srPc' = "finished"
               /\ fsPc' = "closed"
               /\ agPc' = "ended"
               /\ itState' = ReturnAll(itState)
               /\ UNCHANGED nextDeferred
          ELSE \* crawler.ts 869: await nextDeferred.promise
               /\ earlyReturnTimer' = timer1
               /\ agPc' = IF nextDeferred = "resolved" THEN "woken" ELSE "awaiting"
               /\ fsPc' = "waiting"
               /\ UNCHANGED <<response, sentBy, srPc, itState, nextDeferred>>
    /\ UNCHANGED cvars
    /\ UNCHANGED kvars
    /\ UNCHANGED <<allResults, count, mode, searchResults, results, concluded, yields,
                   mapped, finalEmitted>>

\* The setTimeout callback of setEarlyReturnTimer (104-109).
TimerFire ==
    /\ earlyReturnTimer = "armed"
    /\ earlyReturnTimer' = "fired"
    /\ IF lastScrapped = None
       THEN UNCHANGED <<response, sentBy>>
       ELSE /\ response' = sendResponse(response, Get(lastScrapped), 200)
            /\ sentBy' = IF response.headersSent THEN sentBy ELSE "timer"
    /\ UNCHANGED cvars
    /\ UNCHANGED kvars
    /\ UNCHANGED <<allResults, count, mode, searchResults, results, nextDeferred, concluded,
                   agPc, itState, yields, fsPc, mapped, snapshotMap,
                   lastScrapped, srPc, armCount, seenQualified, formatFailed, finalEmitted>>

Next ==
    \/ Start
    \/ \E i \in Slots : \E v \in {None} \cup {Some(Snapshot(i, yields[i] + 1, k)) : k \in SnapKinds} :
          StreamYield(i, v)
    \/ \E i \in Slots : StreamEnd(i)
    \/ \E i \in Slots : StreamThrow(i)
    \/ \E i \in Slots : HandlerCatch(i)
    \/ Conclude
    \/ AgEmit
    \/ FsMap
    \/ \E F \in SUBSET Slots : FsFormatDone(F)
    \/ TimerFire

Spec == Init /\ [][Next]_vars

\* A timer that is set runs its callback once the delay is over, unless it
\* is cleared first (104-109); nothing is assumed of the scrape streams.
TimerLive == Spec /\ WF_vars(TimerFire)

\* Every scrape stream terminates, every handler and the Promise.all
\* callback run, and the consumer keeps requesting emissions.
StreamsLive ==
    /\ Spec
    /\ WF_vars(Start)
    /\ WF_vars(\E i \in Slots : StreamEnd(i))
    /\ WF_vars(\E i \in Slots : HandlerCatch(i))
    /\ WF_vars(Conclude)
    /\ WF_vars(AgEmit)
    /\ WF_vars(FsMap)
    /\ WF_vars(\E F \in SUBSET Slots : FsFormatDone(F))

\* ------------------------------------------------ fetchSearchResults alone
\* fetchSearchResults is called with any count and with or without a list
\* of results; the loop of search (111-140) consumes what it yields.
FetchInit ==
    /\ count \in 0..MaxCount
    /\ CacheDone
    /\ NoCrawl
    /\ mode \in Modes
    /\ allResults \in UpstreamLists
    /\ searchResults = IF count = 0 THEN allResults ELSE Slice(allResults, count)
    /\ results = [i \in 1..Len(searchResults) |-> None]
    /\ nextDeferred = "pending"
    /\ concluded = FALSE
    /\ agPc = "init"
    /\ itState = [i \in 1..Len(searchResults) |-> "idle"]
    /\ yields = [i \in 1..Len(searchResults) |-> 0]
    /\ fsPc = "init"
    /\ mapped = None
    /\ snapshotMap = {}
    /\ lastScrapped = None
    /\ earlyReturnTimer = "unset"
    /\ srPc = "start"
    /\ response = NoResponse
    /\ sentBy = "none"
    /\ armCount = 0
    /\ seenQualified = FALSE
    /\ finalEmitted = FALSE
    /\ formatFailed = {}
    /\ NoCall

\* fetchSearchResults is given no list of results and returns at once
\* (151-153): the loop body of search never runs and search goes on with
\* lines 129-140.
FsNoResults ==
    /\ srPc = "start"
    /\ srPc' = "finished"
    /\ fsPc' = "closed"
    /\ earlyReturnTimer' = clearTimeout(earlyReturnTimer)
    /\ response' = AfterLoop(response, lastScrapped)
    /\ sentBy' = IF response.headersSent THEN sentBy ELSE "catch"
    /\ UNCHANGED cvars
    /\ UNCHANGED kvars
    /\ UNCHANGED <<allResults, count, mode, searchResults, results, nextDeferred, concluded,
                   agPc, itState, yields, mapped, snapshotMap, lastScrapped, armCount,
                   seenQualified, formatFailed, finalEmitted>>

StubBatch_first(m, sr) == [i \in DOMAIN Slice(sr, 1) |-> StubPage(m, i, sr[i])]

\* The batch of the count === 0 branch: one stub per result (155-167).
StubBatch(m, sr) == [i \in DOMAIN sr |-> StubPage(m, i, sr[i])]

\* fetchSearchResults with count 0 yields the stubs and returns (154-173);
\* search runs its loop body on them once (112-126) and, when the batch does
\* not pass the gate, lines 129-136.
FsStubs ==
    /\ srPc = "start"
    /\ count = 0
    /\ LET batch  == StubBatch(mode, searchResults)
           set    == IF SomeQualified(batch) THEN setEarlyReturnTimer(earlyReturnTimer)
                     ELSE [timer |-> earlyReturnTimer, setTimeouts |-> 0]
           passed == searchResultsQualified(batch, count)
       IN
       /\ lastScrapped' = Some(batch)
       /\ formatFailed' = {}
       /\ seenQualified' = (seenQualified \/ SomeQualified(batch))
       /\ armCount' = armCount + set.setTimeouts
       /\ earlyReturnTimer' = clearTimeout(set.timer)
       /\ response' = IF passed THEN sendResponse(response, batch, 200)
                      ELSE AfterLoop(response, Some(batch))
       /\ sentBy' = IF response.headersSent THEN sentBy
                    ELSE IF passed THEN "gate" ELSE "end"
       /\ srPc' = IF passed THEN "returned" ELSE "finished"
       /\ fsPc' = "closed"
    /\ UNCHANGED cvars
    /\ UNCHANGED kvars
    /\ UNCHANGED <<allResults, count, mode, searchResults, results, nextDeferred, concluded,
                   agPc, itState, yields, mapped, snapshotMap, finalEmitted>>

FetchNext ==
    \/ FsNoResults
    \/ FsStubs
    \/ Next

FetchSpec == FetchInit /\ [][FetchNext]_vars


\* ================================================ search cache and client
\* Date.now() when cachedWebSearch runs.
Now == 2 * cacheRetentionMs

\* The ages of the entries the collection may hold.  Entries are removed by
\* a sweeper outside the program, some time after expireAt.
Ages == {0, cacheValidMs - 1, cacheValidMs, cacheValidMs + 1,
         cacheRetentionMs - 1, cacheRetentionMs, cacheRetentionMs + 1}

\* objHashMd5B64Of(query) of this request, and of some other query.
Digests == {"q", "other"}

\* A SearXNGSearchResponse: origin stands for every field but results.
Response(origin, res) == [origin |-> origin, results |-> res]

\* SearchResult.from (364-370)
SearchResultRecord(d, t, resp) ==
    [queryDigest |-> d, createdAt |-> t, expireAt |-> t + cacheRetentionMs, response |-> resp]

CachedResults == <<UpstreamResult(1, FALSE, Text)>>

\* An entry of age a saved for digest d by an earlier request.
StoredEntry(d, a) ==
    SearchResultRecord(d, Now - a, Response(<<"cache", d, Now - a>>, CachedResults))

\* The entries the collection may hold at the start: one of any age for the
\* digest of this request, a new one for the other digest.
StoredEntries == {StoredEntry("q", a) : a \in Ages} \cup {StoredEntry("other", 0)}

Stores == {st \in SUBSET StoredEntries : Cardinality(st) <= MaxEntries}

\* where('queryDigest', '==', d).orderBy('createdAt', 'desc').limit(1), [0]
MostRecent(st, d) ==
    LET es == {e \in st : e.queryDigest = d} IN
    IF es = {} THEN None
    ELSE Some(CHOOSE e \in es : \A f \in es : f.createdAt <= e.createdAt)

Stale_always(e, now) == TRUE

\* const stale (312)
Stale(e, now) == e.createdAt < now - cacheValidMs

UseCache_always(nc) == TRUE

\* if (!noCache) (304)
UseCache(nc) == ~nc

\* The body of upstream page p when it holds n results.
PageData(p, n) ==
    Response(<<"upstream", "q", p>>,
             [i \in 1..n |-> UpstreamResult((p - 1) * MaxUp + i, (i % 2) = 0,
                                            IF (i % 2) = 1 THEN Text ELSE Empty)])

\* Outcomes of axios.get: a 2xx answer with an object body, HTTP 429,
\* HTTP 500, a 2xx answer whose body is not an object, no answer at all.
Statuses == {"200", "429", "500", "invalid", "network"}

Retry_any(st) == st \in {"429", "500"}

\* err?.response?.status === 429 (part_000 137)
Retry_invalid(st) == st \in {"429", "invalid"}

Retry(st) == st = "429"

NeedSecondPage_inclusive(all, cnt) == Len(all) <= cnt

\* allResults.length < query.count (343)
NeedSecondPage(all, cnt) == Len(all) < cnt

CatchUpstream_rethrow(c) == [thrown |-> TRUE, value |-> None]

\* cachedWebSearch's catch clause (376-384)
CatchUpstream(c) ==
    IF c # None THEN [thrown |-> FALSE, value |-> Some(Get(c).response)]
    ELSE [thrown |-> TRUE, value |-> None]

RecordsSaved_always(pagesOk, rec) == <<rec>>

\* SearchResult.save is reached only when no await of the try block threw
\* (323-373).
RecordsSaved(pagesOk, rec) == IF pagesOk THEN <<rec>> ELSE << >>

\* const count (82): q is the query parameter, None when it is absent.
CountOf(q) ==
    IF q = None THEN defaultCount
    ELSE IF countCeiling < Get(q) THEN countCeiling
    ELSE IF Get(q) < 1 THEN 1
    ELSE Get(q)

CacheInit ==
    /\ NoCrawl
    /\ reqCount \in {None} \cup {Some(n) : n \in 0..MaxCount}
    /\ count = CountOf(reqCount)
    /\ mode = "markdown"
    /\ noCache \in BOOLEAN
    /\ store \in Stores
    /\ cache = None
    /\ cwPc = "start"
    /\ maxTries = 0
    /\ http = << >>
    /\ firstResponse = None
    /\ secondResponse = None
    /\ returned = None
    /\ saved = << >>
    /\ allResults = << >>
    /\ searchResults = << >>
    /\ results = << >>
    /\ nextDeferred = "pending"
    /\ concluded = FALSE
    /\ agPc = "init"
    /\ itState = << >>
    /\ yields = << >>
    /\ fsPc = "init"
    /\ mapped = None
    /\ snapshotMap = {}
    /\ lastScrapped = None
    /\ earlyReturnTimer = "unset"
    /\ srPc = "entry"
    /\ response = NoResponse
    /\ sentBy = "none"
    /\ armCount = 0
    /\ seenQualified = FALSE
    /\ finalEmitted = FALSE
    /\ formatFailed = {}
    /\ NoCall

\* The variables the cache and the client never touch.
pvars == <<count, mode, nextDeferred, concluded, agPc, fsPc, mapped, snapshotMap,
           lastScrapped, earlyReturnTimer, armCount, seenQualified, formatFailed, finalEmitted,
           reqCount, crawlPc, reqUrl, crawlOpts, circuitBreakerHosts, scrapStarted,
           seen, roInput, roOutput>>

\* cachedWebSearch up to the first upstream call (302-332).
CwLookup ==
    /\ srPc = "entry"
    /\ cwPc = "start"
    /\ cache' = IF UseCache(noCache) THEN MostRecent(store, "q") ELSE None
    /\ IF cache' # None /\ ~Stale(Get(cache'), Now)
       THEN /\ returned' = Some(Get(cache').response)
            /\ cwPc' = "returned"
            /\ UNCHANGED maxTries
       ELSE /\ cwPc' = "page1"
            /\ maxTries' = MaxTries
            /\ UNCHANGED returned
    /\ UNCHANGED <<noCache, store, http, firstResponse, secondResponse, saved, allResults,
                   searchResults, results, itState, yields, srPc, response, sentBy>>
    /\ UNCHANGED pvars

\* An upstream call has failed: cachedWebSearch's catch clause (376-384)
\* and, when it rethrows, the catch clause of search (137-140).
UpstreamFailed ==
    LET c == CatchUpstream(cache)
        recs == RecordsSaved(FALSE, SearchResultRecord("q", Now + 1,
                                        Response(<<"upstream", "q", 1>>, allResults)))
    IN
    /\ returned' = c.value
    /\ cwPc' = IF c.thrown THEN "thrown" ELSE "returned"
    /\ saved' = saved \o recs
    /\ store' = store \cup Range(recs)
    /\ IF c.thrown
       THEN /\ response' = sendResponse(response, << >>, 500)
            /\ sentBy' = "catch"
            /\ srPc' = "failed"
       ELSE UNCHANGED <<response, sentBy, srPc>>
    /\ UNCHANGED <<noCache, cache, firstResponse, secondResponse, allResults>>

\* SearXNGSearchService.search, one turn of its loop (part_000 109-143):
\* the request is answered with outcome st and, when it succeeds, a body
\* of n results.  On success cachedWebSearch goes on (340-375); saveOk
\* tells whether the store accepts the record.
HttpAttempt(st, n, saveOk) ==
    /\ srPc = "entry"
    /\ cwPc \in {"page1", "page2"}
    /\ maxTries > 0
    /\ maxTries' = IF st = "200" /\ cwPc = "page1" /\ NeedSecondPage(PageData(1, n).results, count)
                   THEN MaxTries ELSE maxTries - 1
    /\ LET p    == IF cwPc = "page1" THEN 1 ELSE 2
           data == PageData(p, n)
           all  == allResults \o data.results
       IN
       /\ http' = Append(http, [pageno |-> p, status |-> st])
       /\ IF st = "200"
          THEN IF p = 1 /\ NeedSecondPage(all, count)
               THEN /\ firstResponse' = Some(data)
                    /\ allResults' = all
                    /\ cwPc' = "page2"
                    /\ UNCHANGED <<noCache, cache, secondResponse, returned, saved, store,
                                   response, sentBy, srPc>>
               ELSE LET first == IF p = 1 THEN data ELSE Get(firstResponse)
                        r     == Response(first.origin, Slice(all, count))
                        recs  == RecordsSaved(TRUE, SearchResultRecord("q", Now + 1, r))
                    IN
                    /\ firstResponse' = Some(first)
                    /\ secondResponse' = IF p = 2 THEN Some(data) ELSE secondResponse
                    /\ allResults' = all
                    /\ saved' = saved \o recs
                    /\ store' = IF saveOk THEN store \cup Range(recs) ELSE store
                    /\ returned' = Some(r)
                    /\ cwPc' = "returned"
                    /\ UNCHANGED <<noCache, cache, response, sentBy, srPc>>
          ELSE IF Retry(st)
          THEN UNCHANGED <<noCache, store, cache, cwPc, firstResponse, secondResponse,
                           returned, saved, allResults, response, sentBy, srPc>>
          ELSE UpstreamFailed
    /\ UNCHANGED <<searchResults, results, itState, yields>>
    /\ UNCHANGED pvars

\* SearXNGSearchService.search: the loop is left after the last 429 and the
\* final throw is reached (part_000 109, 146).
Exhausted ==
    /\ srPc = "entry"
    /\ cwPc \in {"page1", "page2"}
    /\ maxTries = 0
    /\ maxTries' = maxTries - 1
    /\ UpstreamFailed
    /\ UNCHANGED <<http, searchResults, results, itState, yields>>
    /\ UNCHANGED pvars

\* search, line 94: the results of r are trimmed and handed to
\* fetchSearchResults.
FetchStart ==
    /\ srPc = "entry"
    /\ cwPc = "returned"
    /\ srPc' = "start"
    /\ searchResults' = Slice(Get(returned).results, count)
    /\ results' = [i \in 1..Len(searchResults') |-> None]
    /\ itState' = [i \in 1..Len(searchResults') |-> "idle"]
    /\ yields' = [i \in 1..Len(searchResults') |-> 0]
    /\ UNCHANGED <<allResults, response, sentBy>>
    /\ UNCHANGED cvars
    /\ UNCHANGED pvars

\* search from the parsing of count (82) to the first step of
\* fetchSearchResults (111, 151-176).
CacheNext ==
    \/ CwLookup
    \/ \E st \in Statuses : \E n \in 0..MaxUp : \E saveOk \in BOOLEAN : HttpAttempt(st, n, saveOk)
    \/ Exhausted
    \/ FetchStart
    \/ Start

CacheSpec == CacheInit /\ [][CacheNext]_vars

\* Every request sent upstream is answered or fails, and the delay before a
\* retry ends (part_000 111, 138): the handler always takes its next step.
CacheLive == CacheSpec /\ WF_vars(CacheNext)

\* =================================================================== crawl
\* The characters of a hostname: a letter and the label separator.
HostChars == {"a", "."}

\* String.prototype.split('.')
RECURSIVE Split(_)
Split(h) ==
    IF \A k \in DOMAIN h : h[k] # "." THEN <<h>>
    ELSE LET d == CHOOSE k \in DOMAIN h : h[k] = "." /\ \A j \in 1..(k - 1) : h[j] # "."
         IN  <<SubSeq(h, 1, d - 1)>> \o Split(SubSeq(h, d + 1, Len(h)))

\* The hostnames of parsed URLs: labels are not empty.
Hostnames ==
    {h \in UNION {[1..n -> HostChars] : n \in 1..MaxHost} :
        \A k \in DOMAIN Split(h) : Split(h)[k] # << >>}

Protocols == {"http:", "https:", "file:", "ftp:"}

\* What a crawl request names as its target: nothing, a string that does not
\* parse as a URL, or a URL.
NoTarget == [given |-> FALSE, wellFormed |-> FALSE, protocol |-> "", hostname |-> << >>]

Malformed == [given |-> TRUE, wellFormed |-> FALSE, protocol |-> "", hostname |-> << >>]

Url(p, h) == [given |-> TRUE, wellFormed |-> TRUE, protocol |-> p, hostname |-> h]

Targets ==
    {NoTarget, Malformed, Url("file:", << >>)}
        \cup {Url(p, h) : p \in Protocols, h \in Hostnames}

\* getTargetUrl (713-754): null without a url, ParamValidationError for a
\* string new URL rejects or a protocol other than http:, https:, file:.
getTargetUrl(u) ==
    IF ~u.given THEN [thrown |-> FALSE, value |-> None]
    ELSE IF ~u.wellFormed \/ u.protocol \notin {"http:", "https:", "file:"}
    THEN [thrown |-> TRUE, value |-> None]
    ELSE [thrown |-> FALSE, value |-> Some(u)]

\* ['http:', 'https:'].includes(parsedUrl.protocol) (648)
ProtocolAllowed(p) == p \in {"http:", "https:"}

isValidTLD_anyParts(hostname) ==
    LET parts == Split(hostname) IN Len(parts[Len(parts)]) >= 2

isValidTLD_oneChar(hostname) ==
    LET parts == Split(hostname) IN Len(parts) > 1 /\ Len(parts[Len(parts)]) >= 1

\* isValidTLD (757-760)
isValidTLD(hostname) ==
    LET parts == Split(hostname) IN Len(parts) > 1 /\ Len(parts[Len(parts)]) >= 2

\* ctx.req.hostname.toLowerCase() (661)
ServerHost == "reader"

\* A text/plain body.
TextBody(msg) == <<[message |-> msg]>>

\* A title of white space only, and String.prototype.trim on the titles
\* of the model.
Spaces == " "

Trim(t) == IF t = Spaces THEN Empty ELSE t

\* A snapshot of the crawled page: parsed.content, title, pdfs.length and
\* what the formatter reads.
PageSnapshot(k, c, t, n) ==
    [slot |-> 1, seq |-> k, content |-> c, title |-> t, pdfs |-> n,
     kind |-> [title |-> Truthy(t), md |-> Truthy(c), html |-> Truthy(c),
               text |-> Truthy(c), screenshot |-> Truthy(c), pageshot |-> Truthy(c)]]

PageSnapshots(k) ==
    {PageSnapshot(k, c, t, n) : c \in {Empty, Text}, t \in {Undefined, Spaces, Text},
                                n \in {0, 1}}

\* errorSnapshot (686-692)
ErrorSnapshot ==
    [slot |-> 1, seq |-> 0, content |-> Undefined, title |-> Text, pdfs |-> 0,
     kind |-> [title |-> TRUE, md |-> FALSE, html |-> FALSE, text |-> TRUE,
               screenshot |-> FALSE, pageshot |-> FALSE]]

ContentOf(v) == IF v = None THEN Undefined ELSE Get(v).content

TitleOf(v) == IF v = None THEN Undefined ELSE Get(v).title

PdfsOf(v) == IF v = None THEN 0 ELSE Get(v).pdfs

Skip_both(opts, v) ==
    \/ opts.waitForSelector
    \/ (~Truthy(ContentOf(v)) /\ ~Truthy(Trim(TitleOf(v)))) /\ PdfsOf(v) = 0

\* The test of line 672 on the value v the stream yielded.
Skip(opts, v) ==
    \/ opts.waitForSelector
    \/ (~Truthy(ContentOf(v)) \/ ~Truthy(Trim(TitleOf(v)))) /\ PdfsOf(v) = 0

ReturnsEarly_always(opts) == TRUE

\* crawlerOptions.timeout === undefined (678)
ReturnsEarly(opts) == ~opts.timeout

\* sendFormattedResponse (773-785)
sendFormattedResponse(res, formatted, respondWith) ==
    IF \/ respondWith = "screenshot" /\ Truthy(formatted.screenshotUrl)
       \/ respondWith = "pageshot" /\ Truthy(formatted.pageshotUrl)
    THEN sendResponse(res, <<formatted>>, 302)
    ELSE sendResponse(res, <<formatted>>, 200)

\* The catch clause of crawl (706-709).
CrawlCatch(res) == sendResponse(res, TextBody("Internal server error"), 500)

\* The variables of the search pipeline that crawl never touches.
svars == <<allResults, count, mode, searchResults, results, nextDeferred, concluded, agPc,
           itState, yields, fsPc, mapped, snapshotMap, earlyReturnTimer, srPc, sentBy,
           armCount, seenQualified, formatFailed, finalEmitted>>

CrawlInit ==
    /\ count = 1
    /\ CacheDone
    /\ mode \in Modes
    /\ allResults = << >>
    /\ searchResults = << >>
    /\ results = << >>
    /\ nextDeferred = "pending"
    /\ concluded = FALSE
    /\ agPc = "init"
    /\ itState = << >>
    /\ yields = << >>
    /\ fsPc = "init"
    /\ mapped = None
    /\ snapshotMap = {}
    /\ lastScrapped = None
    /\ earlyReturnTimer = "unset"
    /\ srPc = "idle"
    /\ response = NoResponse
    /\ sentBy = "none"
    /\ armCount = 0
    /\ seenQualified = FALSE
    /\ finalEmitted = FALSE
    /\ formatFailed = {}
    /\ NoCall
    /\ crawlPc = "entry"
    /\ reqUrl \in Targets
    /\ crawlOpts \in [waitForSelector : BOOLEAN, timeout : BOOLEAN]
    /\ circuitBreakerHosts = {}
    /\ scrapStarted = FALSE
    /\ seen = << >>

\* crawl up to the scrape (632-668): the target is resolved and validated,
\* the host of the request joins the circuit breaker, this.scrap is called.
CrawlValidate ==
    /\ crawlPc = "entry"
    /\ LET t == getTargetUrl(reqUrl) IN
       IF t.thrown
       THEN /\ response' = CrawlCatch(response)
            /\ crawlPc' = "failed"
            /\ UNCHANGED <<circuitBreakerHosts, scrapStarted>>
       ELSE IF t.value = None
       THEN /\ response' = sendResponse(response, TextBody("Invalid URL"), 400)
            /\ crawlPc' = "rejected"
            /\ UNCHANGED <<circuitBreakerHosts, scrapStarted>>
       ELSE IF ~ProtocolAllowed(Get(t.value).protocol) \/ ~isValidTLD(Get(t.value).hostname)
       THEN /\ response' = sendResponse(response, TextBody("Invalid URL or TLD"), 400)
            /\ crawlPc' = "rejected"
            /\ UNCHANGED <<circuitBreakerHosts, scrapStarted>>
       ELSE /\ circuitBreakerHosts' = circuitBreakerHosts \cup {ServerHost}
            /\ scrapStarted' = TRUE
            /\ crawlPc' = "scraping"
            /\ UNCHANGED response
    /\ UNCHANGED <<reqUrl, crawlOpts, seen, lastScrapped>>
    /\ UNCHANGED cvars
    /\ UNCHANGED svars

\* One turn of the for-await loop of crawl (670-681): the stream yields v;
\* fail tells whether formatSnapshot rejects, which the catch clause at
\* 682 rethrows to the one at 706.
CrawlSnapshot(v, fail) ==
    /\ crawlPc = "scraping"
    /\ Len(seen) < MaxSeen
    /\ LET skip == Skip(crawlOpts, v) IN
       /\ seen' = Append(seen, [value |-> v, skipped |-> skip])
       /\ lastScrapped' = v
       /\ IF skip
          THEN UNCHANGED <<response, crawlPc>>
          ELSE IF fail
          THEN /\ response' = CrawlCatch(response)
               /\ crawlPc' = "failed"
          ELSE IF ReturnsEarly(crawlOpts)
          THEN /\ response' = sendFormattedResponse(response,
                                  formatSnapshot(mode, Get(v), reqUrl), mode)
               /\ crawlPc' = "returned"
          ELSE UNCHANGED <<response, crawlPc>>
    /\ UNCHANGED <<reqUrl, crawlOpts, circuitBreakerHosts, scrapStarted>>
    /\ UNCHANGED cvars
    /\ UNCHANGED svars

\* The stream is over (699-704).
CrawlIterEnd(fail) ==
    /\ crawlPc = "scraping"
    /\ IF lastScrapped = None
       THEN /\ response' = sendResponse(response, TextBody("No content available"), 404)
            /\ crawlPc' = "ended"
       ELSE IF fail
       THEN /\ response' = CrawlCatch(response)
            /\ crawlPc' = "failed"
       ELSE /\ response' = sendFormattedResponse(response,
                               formatSnapshot(mode, Get(lastScrapped), reqUrl), mode)
            /\ crawlPc' = "ended"
    /\ UNCHANGED <<reqUrl, crawlOpts, circuitBreakerHosts, scrapStarted, seen, lastScrapped>>
    /\ UNCHANGED cvars
    /\ UNCHANGED svars

\* The stream throws (682-697): dns tells whether the error is an
\* AssertionFailureError naming an invalid TLD or an unresolved name, fail
\* whether formatting the error snapshot rejects.
CrawlIterThrow(dns, fail) ==
    /\ crawlPc = "scraping"
    /\ IF dns /\ ~fail
       THEN /\ response' = sendFormattedResponse(response,
                               formatSnapshot(mode, ErrorSnapshot, reqUrl), mode)
            /\ crawlPc' = "recovered"
       ELSE /\ response' = CrawlCatch(response)
            /\ crawlPc' = "failed"
    /\ UNCHANGED <<reqUrl, crawlOpts, circuitBreakerHosts, scrapStarted, seen, lastScrapped>>
    /\ UNCHANGED cvars
    /\ UNCHANGED svars

CrawlNext ==
    \/ CrawlValidate
    \/ \E v \in {None} \cup {Some(x) : x \in PageSnapshots(Len(seen) + 1)} :
          \E fail \in BOOLEAN : CrawlSnapshot(v, fail)
    \/ \E fail \in BOOLEAN : CrawlIterEnd(fail)
    \/ \E dns \in BOOLEAN : \E fail \in BOOLEAN : CrawlIterThrow(dns, fail)

CrawlSpec == CrawlInit /\ [][CrawlNext]_vars

\* ================================================================ claims
BatchOf(o) == IF o = None THEN << >> ELSE Get(o)

AllSlotsQualified(b) == \A i \in DOMAIN b : pageQualified(b[i])

GateHolds(b) == AllSlotsQualified(b) /\ Len(b) >= count

\* C1 (as stated): once search has returned through the qualification
\* gate, the timer is not pending and the response is exactly the batch
\* that satisfied the gate.
C1_Original ==
    srPc = "returned" =>
        /\ earlyReturnTimer # "armed"
        /\ response.headersSent
        /\ response.body = BatchOf(lastScrapped)

\* C1 (amended): when a batch satisfies the gate, search returns at once: a
\* pending timer is cancelled, no further emission is consumed, and that
\* batch is the response unless the early-return timer had already fired,
\* in which case the batch the timer sent remains the response.
C1_GateReturns ==
    /\ [](srPc = "returned" =>
            /\ GateHolds(BatchOf(lastScrapped))
            /\ earlyReturnTimer \in {"cleared", "fired"}
            /\ response.headersSent /\ response.code = 200
            /\ IF earlyReturnTimer = "fired"
               THEN sentBy = "timer"
               ELSE sentBy = "gate" /\ response.body = BatchOf(lastScrapped))
    /\ [][srPc = "returned" =>
            /\ lastScrapped' = lastScrapped
            /\ mapped' = mapped
            /\ fsPc' = "closed" /\ agPc' = "ended"]_vars

C1_Witness ==
    /\ srPc = "returned"
    /\ sentBy = "gate"
    /\ earlyReturnTimer = "cleared"
    /\ Len(response.body) = count

\* C2 (as stated): a non-empty batch whose slots are all qualified ends the
\* wait at once, also when it has fewer than count entries.
C2_Original ==
    (lastScrapped # None /\ Len(BatchOf(lastScrapped)) >= 1
        /\ AllSlotsQualified(BatchOf(lastScrapped)))
    => srPc # "looping"

\* C2 (amended): search returns through the gate exactly when the batch it
\* observed has all slots qualified and at least count entries; a fully
\* qualified batch with fewer than count entries does not end the wait.
C2_GateNeedsCount ==
    lastScrapped # None =>
        (srPc = "returned" <=> GateHolds(BatchOf(lastScrapped)))

C2_Witness ==
    /\ srPc = "looping"
    /\ lastScrapped # None
    /\ Len(BatchOf(lastScrapped)) >= 1
    /\ Len(BatchOf(lastScrapped)) < count
    /\ AllSlotsQualified(BatchOf(lastScrapped))

\* C3 (as stated): after the early-return timer has fired, no further
\* emission is consumed or formatted.
C3_Original ==
    [][earlyReturnTimer = "fired" => (mapped' = mapped /\ lastScrapped' = lastScrapped)]_vars

\* C3 (amended): when the timer fires the most recently produced batch is
\* sent as the response; the pipeline goes on consuming and formatting
\* emissions, but the response sent by the timer is never changed.
C3_TimerSendsLast ==
    /\ [][(earlyReturnTimer = "armed" /\ earlyReturnTimer' = "fired") =>
            /\ lastScrapped # None
            /\ response' = [headersSent |-> TRUE, code |-> 200,
                            body |-> BatchOf(lastScrapped)]
            /\ sentBy' = "timer"]_vars
    /\ [][earlyReturnTimer = "fired" => response' = response]_vars

C3_Witness ==
    /\ earlyReturnTimer = "fired"
    /\ sentBy = "timer"
    /\ lastScrapped # None
    /\ response.body # BatchOf(lastScrapped)

\* C4: the timer is armed by at most one setTimeout call, and it is armed
\* (hence fired or cleared) only after search has observed a batch with a
\* qualified slot.
C4_TimerAfterQualified ==
    /\ armCount <= 1
    /\ earlyReturnTimer # "unset" => (seenQualified /\ armCount = 1)
    /\ earlyReturnTimer = "unset" => armCount = 0

C4_Witness ==
    /\ earlyReturnTimer = "fired"
    /\ seenQualified
    /\ armCount = 1

\* C5: the step in which search observes a gate-satisfying batch leaves no
\* timer pending; if the timer had not fired before, that step clears it
\* and the gate path sends the response.  After the gate the timer callback
\* never runs and the response never changes.
C5_GateBeatsTimer ==
    /\ [][(srPc # "returned" /\ srPc' = "returned") =>
            /\ earlyReturnTimer' # "armed"
            /\ earlyReturnTimer # "fired" =>
                  /\ earlyReturnTimer' = "cleared"
                  /\ sentBy' = "gate"
                  /\ response'.body = BatchOf(lastScrapped')]_vars
    /\ [][srPc = "returned" =>
            /\ earlyReturnTimer' = earlyReturnTimer
            /\ response' = response
            /\ sentBy' = sentBy]_vars

C5_Witness ==
    /\ srPc = "returned"
    /\ armCount = 1
    /\ earlyReturnTimer = "cleared"
    /\ sentBy = "gate"
    /\ response.body = BatchOf(lastScrapped)

\* C6: when the aggregator has ended without the gate, the request is
\* answered with status 200; unless the timer already answered, the body is
\* the last batch produced, whether or not all its slots are qualified.
C6_EndSendsLast ==
    srPc = "finished" =>
        /\ lastScrapped # None
        /\ ~GateHolds(BatchOf(lastScrapped))
        /\ earlyReturnTimer # "armed"
        /\ response.headersSent /\ response.code = 200
        /\ earlyReturnTimer # "fired" =>
              (sentBy = "end" /\ response.body = BatchOf(lastScrapped))

C6_Witness ==
    /\ srPc = "finished"
    /\ sentBy = "end"
    /\ response.code = 200
    /\ \E i \in DOMAIN response.body : pageQualified(response.body[i])
    /\ \E i \in DOMAIN response.body : ~pageQualified(response.body[i])

\* C7: every batch search observes, and the body of every response, has at
\* most count entries.
C7_AtMostCount ==
    /\ Len(BatchOf(lastScrapped)) <= count
    /\ Len(response.body) <= count
    /\ Len(searchResults) <= count

C7_Witness ==
    /\ Len(allResults) > count
    /\ response.headersSent
    /\ Len(response.body) = count

\* C8 (as stated): in every batch the entry at position i carries the url of
\* the i-th upstream result (compared as URLs, i.e. after normalisation).
C8_UrlAtPosition ==
    \A i \in DOMAIN BatchOf(lastScrapped) :
        /\ BatchOf(lastScrapped)[i].url # NoUrl
        /\ NewURL(BatchOf(lastScrapped)[i].url) = NewURL(searchResults[i].url)

\* C9 (as stated): when scrapMany has ended by itself, every snapshot held by
\* a slot was in the slot array when the consumer read its last emission.
C9_EverySnapshotEmitted ==
    srPc = "finished" =>
        \A i \in Slots : results[i] # None => Get(mapped)[i] = results[i]

\* C10 (as stated): when scrapMany has ended by itself, it has emitted the
\* slot array at least once after the last stream terminated.
C10_FinalEmission ==
    srPc = "finished" => finalEmitted

\* C11 (as stated): once the consumer has stopped iterating scrapMany, or
\* scrapMany has ended by itself, return() has been called on the iterator
\* of every scrape stream: none is left running untouched.
C11_StreamsTerminated ==
    agPc = "ended" => \A i \in Slots : itState[i] # "running"

\* C12: the step in which a scrape stream throws changes nothing but that
\* stream: its peers, the slot array, the aggregator, the consumer and the
\* response are untouched.  scrapMany is concluded only when every handler
\* has returned, and no stream error turns the response into an error.
C12_ErrorsContained ==
    /\ [](concluded => \A i \in Slots : itState[i] = "done")
    /\ [](response.code # 500)
    /\ [][\A i \in Slots :
            (itState[i] = "running" /\ itState'[i] = "failed") =>
                /\ \A j \in Slots \ {i} : itState'[j] = itState[j]
                /\ results' = results
                /\ concluded' = concluded
                /\ agPc' = agPc /\ fsPc' = fsPc /\ srPc' = srPc
                /\ response' = response]_vars

\* A stream has thrown while a peer is still running; the peer's slot holds a
\* snapshot and scrapMany has not concluded.
C12_Witness ==
    \E i, j \in Slots :
        /\ i # j
        /\ itState[i] = "failed"
        /\ itState[j] = "running"
        /\ results[j] # None
        /\ ~concluded

\* ------------------------------------------- claims on the search cache
\* The outcome of the last HTTP request issued.
LastStatus == IF http = << >> THEN "none" ELSE http[Len(http)].status

\* The age of the entry the lookup found.
CacheAge == Now - Get(cache).createdAt

\* cachedWebSearch has returned the response of the entry the lookup found.
ReturnedCache == returned # None /\ cache # None /\ returned = Some(Get(cache).response)

\* C13: the step in which an upstream call of cachedWebSearch fails returns
\* the response of the entry the lookup found when one is held, and leaves
\* the response untouched; when none is held the failure reaches search,
\* which answers with status 500.
C13_FallbackOrFail ==
    [][(/\ cwPc \in {"page1", "page2"}
        /\ cwPc' \in {"returned", "thrown"}
        /\ http'[Len(http')].status # "200") =>
           IF cache # None
           THEN /\ cwPc' = "returned"
                /\ returned' = Some(Get(cache).response)
                /\ response' = response
                /\ srPc' = "entry"
           ELSE /\ cwPc' = "thrown"
                /\ returned' = None
                /\ response'.headersSent /\ response'.code = 500
                /\ srPc' = "failed"]_vars

C13_Witness ==
    /\ cwPc = "returned"
    /\ LastStatus = "network"
    /\ ReturnedCache
    /\ CacheAge = cacheValidMs + 1

\* C14: with noCache false, the entry held after the lookup is the most
\* recent one of the digest; when it is fresh its response has been
\* returned, no HTTP request has been issued and no record has been saved.
C14_FreshHit ==
    (cwPc # "start" /\ ~noCache) =>
        /\ \A e \in store : (e.queryDigest = "q" /\ e \notin Range(saved)) =>
              (cache # None /\ e.createdAt <= Get(cache).createdAt)
        /\ (cache # None /\ CacheAge < cacheValidMs) =>
              /\ cwPc = "returned"
              /\ returned = Some(Get(cache).response)
              /\ http = << >>
              /\ saved = << >>
              /\ store \subseteq StoredEntries

C14_Witness ==
    /\ ~noCache
    /\ cwPc = "returned"
    /\ cache # None
    /\ CacheAge = cacheValidMs - 1
    /\ returned = Some(Get(cache).response)
    /\ Cardinality({e \in store : e.queryDigest = "q"}) = 2

\* C15 (as stated): the entry found is returned directly, without any
\* upstream request, exactly when now - createdAt < validMs.
C15_FreshBoundary ==
    (cwPc # "start" /\ cache # None) =>
        ((cwPc = "returned" /\ http = << >>) <=> CacheAge < cacheValidMs)

\* C16 (as stated): the response cachedWebSearch returns from the cache
\* never belongs to an entry whose age has reached retentionMs.
C16_NoExpired ==
    ReturnedCache => CacheAge < cacheRetentionMs

\* C17: at most one record is saved, and only when every page requested was
\* answered successfully; the record holds the response returned.  When the
\* cached response is returned nothing is saved and the collection is as it
\* was.
C17_SaveOnlyOnSuccess ==
    /\ Len(saved) <= 1
    /\ saved # << >> =>
          /\ cwPc = "returned"
          /\ returned = Some(saved[1].response)
          /\ \A k \in DOMAIN http : http[k].status \in {"200", "429"}
          /\ \A k \in DOMAIN http : \E m \in DOMAIN http :
                http[m].pageno = http[k].pageno /\ http[m].status = "200"
    /\ store \ StoredEntries \subseteq Range(saved)
    /\ ReturnedCache => (saved = << >> /\ store \subseteq StoredEntries)

\* Page 1 succeeded, page 2 failed, and the stale entry was returned.
C17_Witness ==
    /\ ReturnedCache
    /\ Len(http) = 2
    /\ http[1] = [pageno |-> 1, status |-> "200"]
    /\ http[2] = [pageno |-> 2, status |-> "500"]
    /\ saved = << >>

\* C18: with noCache true no entry is looked up; when cachedWebSearch
\* returns, an upstream request has succeeded, the response returned is the
\* upstream one and one record holding it has been handed to the store.
C18_Bypass ==
    noCache =>
        /\ cache = None
        /\ cwPc = "returned" =>
              /\ LastStatus = "200"
              /\ Get(returned).origin[1] = "upstream"
              /\ Len(saved) = 1
              /\ saved[1].queryDigest = "q"
              /\ saved[1].response = Get(returned)

C18_Witness ==
    /\ noCache
    /\ cwPc = "returned"
    /\ \E e \in store : e.queryDigest = "q" /\ e.createdAt = Now
    /\ Len(saved) = 1
    /\ saved[1] \in store

\* C19: only pages 1 and 2 are requested; page 2 is requested exactly when
\* page 1 held fewer than count results; the response built from the
\* upstream holds the first count results of page 1 followed by page 2.
C19_SecondPage ==
    /\ \A k \in DOMAIN http : http[k].pageno \in {1, 2}
    /\ \A k \in DOMAIN http : http[k].pageno = 2 => firstResponse # None
    /\ cwPc = "page2" => firstResponse # None
    /\ firstResponse # None =>
          ((cwPc = "page2" \/ \E k \in DOMAIN http : http[k].pageno = 2)
              <=> Len(Get(firstResponse).results) < count)
    /\ (cwPc = "returned" /\ LastStatus = "200") =>
          LET pages == Get(firstResponse).results \o
                       (IF secondResponse = None THEN << >> ELSE Get(secondResponse).results)
          IN Get(returned).results = SubSeq(pages, 1, Min(count, Len(pages)))

C19_Witness ==
    /\ cwPc = "returned"
    /\ count = 2
    /\ secondResponse # None
    /\ Len(Get(firstResponse).results) = 1
    /\ Len(Get(secondResponse).results) = 2
    /\ Len(Get(returned).results) = 2
    /\ Get(returned).results[2] = Get(secondResponse).results[1]

\* C20: no page is requested more than 5 times, and a request is repeated
\* only after an answer with status 429.
C20_RetryOn429 ==
    /\ \A p \in {1, 2} : Cardinality({k \in DOMAIN http : http[k].pageno = p}) <= 5
    /\ \A k \in 1..(Len(http) - 1) :
          http[k].pageno = http[k + 1].pageno => http[k].status = "429"

\* Five requests for page 1 were answered 429 and the call gave up.
C20_Witness ==
    /\ Len(http) = 5
    /\ \A k \in DOMAIN http : http[k] = [pageno |-> 1, status |-> "429"]
    /\ cwPc = "thrown"
    /\ maxTries = -1

\* The upstream search has failed: the failure reached search, or
\* cachedWebSearch fell back on the entry the lookup found.
UpstreamDown == cwPc = "thrown" \/ (cwPc = "returned" /\ ReturnedCache)

\* C21: once a request is answered with a failure other than 429 the call
\* has failed and no further request follows; a call whose five requests
\* were all answered 429 has failed; a call that handed a response of its
\* own to the caller ended on a 2xx answer; and every call comes to an end.
C21_FailFast ==
    /\ [](LastStatus \in {"500", "invalid", "network"} => UpstreamDown)
    /\ [](maxTries = -1 => UpstreamDown /\ LastStatus = "429")
    /\ []((cwPc = "returned" /\ http # << >> /\ ~ReturnedCache) => LastStatus = "200")
    /\ <>(cwPc \in {"returned", "thrown"})

\* One 429, then a request that got no answer: the call failed at once.
C21_Witness ==
    /\ Len(http) = 2
    /\ http[1] = [pageno |-> 1, status |-> "429"]
    /\ http[2] = [pageno |-> 1, status |-> "network"]
    /\ cwPc = "thrown"
    /\ maxTries = MaxTries - 2

C23_NoScraping ==
    reqCount = Some(0) => agPc = "init" /\ \A i \in DOMAIN itState : itState[i] = "idle"

\* ------------------------------------------------------------------ crawl
\* What the claims say of a value the stream yielded.
IsPdf(v) == PdfsOf(v) > 0

LacksContent(v) == ContentOf(v) \in {Undefined, Empty}

LacksTitle(v) == TitleOf(v) \in {Undefined, Empty, Spaces}

\* The last snapshot among the values taken from the stream.
LastSeen ==
    LET ks == {k \in DOMAIN seen : seen[k].value # None} IN
    IF ks = {} THEN None ELSE seen[CHOOSE k \in ks : \A j \in ks : j <= k].value

\* The response that carries the formatted snapshot x.
FormattedResponse(x) ==
    sendFormattedResponse(NoResponse, formatSnapshot(mode, x, reqUrl), mode)

\* getTargetUrl has returned a URL for the request.
TargetResolved ==
    reqUrl.given /\ reqUrl.wellFormed /\ reqUrl.protocol \in {"http:", "https:", "file:"}

\* The last label of hostname h has fewer than 2 characters.
LastLabelShort(h) == Len(h) < 2 \/ h[Len(h)] = "." \/ h[Len(h) - 1] = "."

\* C24 as stated: a value is skipped exactly when waitForSelector is set or
\* it is no PDF and lacks both parsed.content and a non-empty title.
C24_SkipLacksBoth ==
    \A k \in DOMAIN seen :
        seen[k].skipped <=>
            \/ crawlOpts.waitForSelector
            \/ ~IsPdf(seen[k].value) /\ LacksContent(seen[k].value) /\ LacksTitle(seen[k].value)

\* C24 (amended): a value is skipped exactly when waitForSelector is set or
\* it is no PDF and lacks parsed.content or a non-empty title; the step that
\* skips a value sends nothing and stays in the loop, and without a timeout
\* the step that does not skip it leaves the loop.
C24_SkipLacksEither ==
    /\ [](\A k \in DOMAIN seen :
            seen[k].skipped <=>
                \/ crawlOpts.waitForSelector
                \/ ~IsPdf(seen[k].value)
                     /\ (LacksContent(seen[k].value) \/ LacksTitle(seen[k].value)))
    /\ [][Len(seen') > Len(seen) =>
            IF seen'[Len(seen')].skipped
            THEN crawlPc' = "scraping" /\ response' = response
            ELSE crawlOpts.timeout \/ crawlPc' \in {"returned", "failed"}]_vars

\* A page with content and a blank title, no PDF, was skipped.
C24_Witness ==
    /\ ~crawlOpts.waitForSelector
    /\ \E k \in DOMAIN seen :
          /\ seen[k].skipped
          /\ seen[k].value # None
          /\ ~LacksContent(seen[k].value)
          /\ TitleOf(seen[k].value) = Spaces
          /\ ~IsPdf(seen[k].value)

\* C25 as stated: whatever the options, nothing is taken from the stream
\* after a value that was not skipped.
C25_FirstReturned == \A k \in 1..(Len(seen) - 1) : seen[k].skipped

\* C25 (amended): without a timeout nothing is taken from the stream after
\* a value that was not skipped, and that value's page is the response
\* unless formatting fails; with a timeout the loop never returns.
C25_FirstReturnedNoTimeout ==
    /\ ~crawlOpts.timeout => \A k \in 1..(Len(seen) - 1) : seen[k].skipped
    /\ (~crawlOpts.timeout /\ seen # << >> /\ ~seen[Len(seen)].skipped) =>
           crawlPc \in {"returned", "failed"}
    /\ crawlPc = "returned" =>
           /\ ~crawlOpts.timeout
           /\ ~seen[Len(seen)].skipped
           /\ response = FormattedResponse(Get(seen[Len(seen)].value))
    /\ crawlPc = "scraping" => ~response.headersSent

\* The second value of the stream was the first not skipped, and was returned.
C25_Witness ==
    /\ crawlPc = "returned"
    /\ Len(seen) = 2
    /\ seen[1].skipped
    /\ seen[1].value # None

\* C26: once the stream is over with no response sent before, the response
\* is the page of the last snapshot seen, or 404 when none was seen.
C26_LastSeenReturned ==
    crawlPc = "ended" =>
        IF LastSeen = None THEN response.code = 404
        ELSE response = FormattedResponse(Get(LastSeen))

\* C27: a request whose url does not parse, or whose protocol is none of
\* http:, https:, file:, is answered with status 400.
C27_BadUrl400 ==
    (crawlPc # "entry" /\ reqUrl.given /\ ~TargetResolved) => response.code = 400

\* C28: a request whose target has a last label shorter than 2 characters
\* is answered 400 'Invalid URL or TLD'; no scrape is started and the
\* circuit-breaker set stays as it was.
C28_ShortTld ==
    (crawlPc # "entry" /\ TargetResolved /\ LastLabelShort(reqUrl.hostname)) =>
        /\ crawlPc = "rejected"
        /\ response = sendResponse(NoResponse, TextBody("Invalid URL or TLD"), 400)
        /\ ~scrapStarted
        /\ circuitBreakerHosts = {}
        /\ seen = << >>

\* http://aa.a/ was rejected.
C28_Witness ==
    /\ crawlPc = "rejected"
    /\ reqUrl = Url("http:", <<"a", "a", ".", "a">>)
    /\ response.code = 400

\* C29: a file: URL whose hostname passes the TLD check is not rejected.
C29_FileAccepted ==
    (crawlPc # "entry" /\ TargetResolved /\ reqUrl.protocol = "file:"
        /\ isValidTLD(reqUrl.hostname)) => crawlPc # "rejected"

\* C30 as stated: an http(s) target is rejected exactly when its last label
\* is shorter than 2 characters.
C30_TldIffShort ==
    (crawlPc # "entry" /\ TargetResolved /\ ProtocolAllowed(reqUrl.protocol)) =>
        (crawlPc = "rejected" <=> LastLabelShort(reqUrl.hostname))

\* C30 (amended): an http(s) target is rejected exactly when its hostname
\* has no dot or its last label is shorter than 2 characters.
C30_TldIffShortOrSingle ==
    (crawlPc # "entry" /\ TargetResolved /\ ProtocolAllowed(reqUrl.protocol)) =>
        (crawlPc = "rejected" <=>
            \/ \A k \in DOMAIN reqUrl.hostname : reqUrl.hostname[k] # "."
            \/ LastLabelShort(reqUrl.hostname))

\* http://aa/ was rejected.
C30_Witness ==
    /\ crawlPc = "rejected"
    /\ reqUrl = Url("http:", <<"a", "a">>)
    /\ response.body = TextBody("Invalid URL or TLD")

\* ------------------------------------ reOrganizeSearchResults on its own
\* The pages fetchSearchResults can hand over for n slots: each slot holds
\* the stub of an undefined snapshot or a formatted snapshot, rich or blank.
SlotPages(m, i) ==
    LET up == UpstreamResult(i, (i % 2) = 0, IF (i % 2) = 1 THEN Text ELSE Empty) IN
    {StubPage(m, i, up)} \cup {FormattedSlot(m, Snapshot(i, 1, k), up) : k \in SnapKinds}

PageLists(m) ==
    UNION {{f \in [1..n -> UNION {SlotPages(m, i) : i \in 1..n}] :
                \A i \in 1..n : f[i] \in SlotPages(m, i)} : n \in 0..MaxPages}

ReorgInit ==
    /\ count \in 1..MaxCount
    /\ CacheDone
    /\ NoCrawl
    /\ mode \in Modes
    /\ allResults = << >>
    /\ searchResults = << >>
    /\ results = << >>
    /\ nextDeferred = "pending"
    /\ concluded = FALSE
    /\ agPc = "init"
    /\ itState = << >>
    /\ yields = << >>
    /\ fsPc = "init"
    /\ mapped = None
    /\ snapshotMap = {}
    /\ lastScrapped = None
    /\ earlyReturnTimer = "unset"
    /\ srPc = "idle"
    /\ response = NoResponse
    /\ sentBy = "none"
    /\ armCount = 0
    /\ seenQualified = FALSE
    /\ finalEmitted = FALSE
    /\ formatFailed = {}
    /\ roInput \in PageLists(mode)
    /\ roOutput = None

\* One call of reOrganizeSearchResults(roInput, count).
Reorganize ==
    /\ roOutput = None
    /\ roOutput' = Some(reOrganizeSearchResults(roInput, count))
    /\ UNCHANGED <<roInput, lastScrapped, response, noCache, store, cache, cwPc, maxTries, http, firstResponse,
                   secondResponse, returned, saved, reqCount>>
    /\ UNCHANGED kvars
    /\ UNCHANGED svars

ReorgNext == Reorganize

ReorgSpec == ReorgInit /\ [][ReorgNext]_vars

\* --------------------------------------- further claims on the pipeline
\* C31: when search answers because scrapMany has ended, every entry of the
\* body was made from the value its slot holds at that time, the last one
\* its scrape stream yielded.
C31_FinalFromLast ==
    (srPc = "finished" /\ sentBy = "end") =>
        \A k \in DOMAIN response.body :
            Get(mapped)[response.body[k].slot] = results[response.body[k].slot]

\* C32: once search has observed a batch with a qualified slot, a response
\* is eventually sent, whether or not the scrape streams ever terminate.
C32_EventuallyAnswered == seenQualified ~> response.headersSent

\* The timer answered while a scrape stream was still running.
C32_Witness ==
    /\ seenQualified
    /\ sentBy = "timer"
    /\ srPc = "looping"
    /\ \E i \in Slots : itState[i] = "running"

\* C33: a response that has been sent is never followed by another: no
\* step changes the response, or who sent it, once the headers are out.
C33_OneResponse ==
    [][response.headersSent => (response' = response /\ sentBy' = sentBy)]_vars

\* The timer answered first; the end of scrapMany then found the headers
\* sent and sent nothing.
C33_Witness ==
    /\ srPc = "finished"
    /\ earlyReturnTimer = "fired"
    /\ sentBy = "timer"
    /\ response.body # BatchOf(lastScrapped)

\* C34: the pages reOrganizeSearchResults returns are pages of its input in
\* input order, min(|pages|, count) of them; an unqualified page is among
\* them only if fewer than count pages are qualified, and the unqualified
\* pages kept are the earliest ones.
C34_Reorganized ==
    roOutput # None =>
        LET out == Get(roOutput) IN
        /\ Len(out) = Min(Len(roInput), count)
        /\ \A k \in DOMAIN out :
              /\ out[k].slot \in DOMAIN roInput
              /\ out[k] = roInput[out[k].slot]
        /\ \A k, l \in DOMAIN out : k < l => out[k].slot < out[l].slot
        /\ (\E k \in DOMAIN out : ~pageQualified(out[k])) =>
              Cardinality({i \in DOMAIN roInput : pageQualified(roInput[i])}) < count
        /\ \A k \in DOMAIN out : \A j \in 1..(out[k].slot - 1) :
              (~pageQualified(out[k]) /\ ~pageQualified(roInput[j])) =>
                  \E l \in DOMAIN out : out[l].slot = j

\* More pages than count, an unqualified page kept ahead of a qualified
\* one, and a later unqualified page dropped.
C34_Witness ==
    /\ roOutput # None
    /\ Len(roInput) > count
    /\ \E k, l \in DOMAIN Get(roOutput) :
          /\ k < l
          /\ ~pageQualified(Get(roOutput)[k])
          /\ pageQualified(Get(roOutput)[l])
    /\ \E j \in DOMAIN roInput :
          /\ ~pageQualified(roInput[j])
          /\ \A k \in DOMAIN Get(roOutput) : Get(roOutput)[k].slot # j

\* C35: a slot that holds a snapshot in one emission holds a snapshot in the
\* emission read after it: no slot goes back from a snapshot to nil.
C35_NeverBackToNil ==
    [][(mapped # None /\ mapped' # None) =>
          \A i \in DOMAIN Get(mapped) :
              Get(mapped)[i] # None => Get(mapped')[i] # None]_vars

\* C36: when every scrape stream terminates and the consumer keeps asking
\* for emissions, scrapMany ends; it does not wait forever on nextDeferred.
C36_ScrapManyEnds == <>(agPc = "ended")

\* scrapMany ended after the wake-up of Promise.all(...).finally made it
\* emit the slot array once more.
C36_Witness ==
    /\ agPc = "ended"
    /\ concluded
    /\ finalEmitted
    /\ Slots # {}
    /\ srPc = "finished"

\* ------------------------------------------------ claims on the formatter
\* fetchSearchResults reads an emission after a batch has been made.
NextEmissionRead == fsPc = "got" /\ fsPc' = "formatting" /\ mapped # None

\* Slot i of the emission read in this step holds the snapshot it held in
\* the emission before.
SameSnapshot(i) == Get(mapped)[i] # None /\ Get(mapped')[i] = Get(mapped)[i]

\* C37: a snapshot that was in the emission before the one being read is not
\* given to formatSnapshot again.
C37_FormattedOnce ==
    [][NextEmissionRead =>
          \A i \in DOMAIN Get(mapped) : SameSnapshot(i) => i \notin ToFormat']_vars

\* C37, amended: a snapshot whose formatSnapshot call succeeded is not given
\* to formatSnapshot again; one whose call failed is, in the next emission
\* that holds it.
C37_FormattedOnceUnlessFailed ==
    [][NextEmissionRead =>
          \A i \in DOMAIN Get(mapped) :
              SameSnapshot(i) => (i \in ToFormat' <=> i \in formatFailed)]_vars

\* An emission holds a snapshot formatted before and one whose formatter
\* failed before.
C37_Witness ==
    /\ fsPc = "formatting"
    /\ lastScrapped # None
    /\ \E i \in DOMAIN Get(mapped) :
          Get(mapped)[i] # None /\ Cached(Get(Get(mapped)[i]))
    /\ \E j \in formatFailed : j \in ToFormat

\* The last batch was made from the emission in mapped.
BatchOfEmission == fsPc # "formatting" /\ lastScrapped # None /\ mapped # None

\* C38: the page of a slot whose snapshot is nil is in the batch and is not
\* qualified; search returns through the qualification gate only on a batch
\* without nil slots; a batch whose slots are all nil does not arm the timer.
C38_NilStubUnqualified ==
    /\ [](BatchOfEmission =>
            \A i \in DOMAIN Get(mapped) : Get(mapped)[i] = None =>
                \E k \in DOMAIN Get(lastScrapped) :
                    /\ Get(lastScrapped)[k].slot = i
                    /\ ~pageQualified(Get(lastScrapped)[k]))
    /\ []((srPc = "returned" /\ mapped # None) =>
            \A i \in DOMAIN Get(mapped) : Get(mapped)[i] # None)
    /\ [][armCount' > armCount =>
            \E i \in DOMAIN Get(mapped) : Get(mapped)[i] # None]_vars

\* A batch of one nil slot and one qualified page armed the timer and did
\* not pass the gate.
C38_Witness ==
    /\ BatchOfEmission
    /\ srPc = "looping"
    /\ earlyReturnTimer = "armed"
    /\ \E i \in DOMAIN Get(mapped) : Get(mapped)[i] = None
    /\ \E k \in DOMAIN Get(lastScrapped) : pageQualified(Get(lastScrapped)[k])

\* C39: with count 0 fetchSearchResults yields one batch, a stub per given
\* upstream result in upstream order, and ends; scrapMany is never started.
C39_CountZeroStubs ==
    /\ []((count = 0 /\ lastScrapped # None) =>
            LET batch == Get(lastScrapped) IN
            /\ Len(batch) = Len(searchResults)
            /\ \A k \in DOMAIN batch :
                  /\ batch[k].url = searchResults[k].url
                  /\ batch[k].title = searchResults[k].title
                  /\ batch[k].description = searchResults[k].content
                  /\ ~Truthy(batch[k].content)
            /\ fsPc = "closed"
            /\ agPc = "init"
            /\ \A i \in Slots : itState[i] = "idle" /\ results[i] = None)
    /\ [][(count = 0 /\ lastScrapped # None) => lastScrapped' = lastScrapped]_vars

\* The stubs of two upstream results were yielded and search went on to
\* answer with them.
C39_Witness ==
    /\ count = 0
    /\ lastScrapped # None
    /\ Len(Get(lastScrapped)) = MaxUp
    /\ srPc = "finished"
    /\ response.body = Get(lastScrapped)

\* C40: when formatSnapshot fails for a slot the batch is still made, with a
\* page for every slot: the failed slot's page carries the upstream url,
\* title and description and the snapshot's text as content, and every
\* other slot's page is what it is when no formatter fails.
C40_FailureStub ==
    (BatchOfEmission /\ formatFailed # {}) =>
        LET batch == Get(lastScrapped) IN
        /\ Len(batch) = Len(Get(mapped))
        /\ \A i \in formatFailed :
              /\ batch[i].url = searchResults[i].url
              /\ batch[i].title = searchResults[i].title
              /\ batch[i].description = searchResults[i].content
              /\ batch[i].content = Str(Get(Get(mapped)[i]).kind.text)
        /\ \A i \in DOMAIN batch \ formatFailed :
              batch[i] = IF Get(mapped)[i] = None
                         THEN StubPage(mode, i, searchResults[i])
                         ELSE FormattedSlot(mode, Get(Get(mapped)[i]), searchResults[i])

\* The formatter of one slot failed on a snapshot with text while the
\* snapshot of another slot was formatted.
C40_Witness ==
    /\ BatchOfEmission
    /\ \E i \in formatFailed : Truthy(Get(lastScrapped)[i].content)
    /\ \E j \in DOMAIN Get(mapped) \ formatFailed : Get(mapped)[j] # None

====
